---- MODULE Spec2Model ----
(***************************************************************************)
(* NetStore (swarm/storage/netstore.go): a local chunk store extended with *)
(* per-address fetchers.  Callers run Get, Has and Put concurrently; the   *)
(* NetStore mutex n.mu serialises Put and get; Fetch, and the destroy      *)
(* callback it runs, execute outside the mutex.                            *)
(*                                                                         *)
(* Every caller p is one goroutine; the callers together issue a bounded   *)
(* number of calls.  pc[p] is p's position inside the call it is running:  *)
(*   idle            between calls                                         *)
(*   get_fetcher     in get(), holding n.mu, store lookup done             *)
(*   put_deliver     in Put, holding n.mu, store write done                *)
(*   fetch_enter     get() has returned f.Fetch, Fetch not yet entered     *)
(*   fetch_wait      in Fetch, requestCnt incremented, at the select       *)
(*   destroy         decrement reached zero, destroy about to Remove       *)
(*   destroy_cancel  destroy has removed the key, about to cancel          *)
(***************************************************************************)
EXTENDS Integers, Sequences, FiniteSets, TLC

\* ----------------------------------------------------------------- bounds
NumProcs == 2        \* concurrent callers
MaxCalls == 3        \* calls issued by all callers together
Capacity == 1        \* size given to lru.New (defaultChunkRequestsCacheCapacity)

Procs == 1..NumProcs
\* Every Get or Has can allocate at most one fetcher.
MaxFetchers == MaxCalls
Fids == 1..MaxFetchers

\* Two one-byte addresses.
Addrs == {<<10>>, <<171>>}

\* ------------------------------------------------------------ pure helpers
HexDigits == <<"0", "1", "2", "3", "4", "5", "6", "7",
               "8", "9", "a", "b", "c", "d", "e", "f">>

\* hex.EncodeToString: two lower-case hex digits per byte, high nibble first.
EncodeToString(b) ==
    [i \in 1..(2 * Len(b)) |->
        IF i % 2 = 1 THEN HexDigits[(b[(i + 1) \div 2] \div 16) + 1]
                     ELSE HexDigits[(b[i \div 2] % 16) + 1]]

\* A cache key is an interface{} value: a dynamic type and a value.
\* getOrCreateFetcher keys the table by the hex string of the address.
HexKey(ref) == [type |-> "string", val |-> EncodeToString(ref)]

\* Put looks the table up with ch.Address() itself, an Address ([]byte).
AddressKey(ref) == [type |-> "Address", val |-> ref]

\* Go interface equality: equal dynamic types and equal values.
KeyEq(k1, k2) == k1.type = k2.type /\ k1.val = k2.val

\* A slice type cannot be hashed: a map lookup with such a key panics.
Hashable(k) == k.type # "Address"

\* The chunk of an address (content addressed: one payload per address).
Chunk(a) == [addr |-> a]
NilChunk == [addr |-> <<>>]

\* ------------------------------------------------------ lru.Cache (fetchers)
\* The cache is the sequence of its entries, most recently used first.
LruIndex(c, k) ==
    IF \E i \in 1..Len(c) : KeyEq(c[i].key, k)
    THEN CHOOSE i \in 1..Len(c) : KeyEq(c[i].key, k)
    ELSE 0

LruToFront(c, i) == <<c[i]>> \o SubSeq(c, 1, i - 1) \o SubSeq(c, i + 1, Len(c))

\* Cache.Get: the value (0 when absent) and the cache with the entry moved
\* to the front.
LruGetVal(c, k) == IF LruIndex(c, k) = 0 THEN 0 ELSE c[LruIndex(c, k)].val
LruGetCache(c, k) == IF LruIndex(c, k) = 0 THEN c ELSE LruToFront(c, LruIndex(c, k))

\* Cache.Add: a new entry goes to the front; the oldest one is evicted when
\* the size is exceeded.
LruAdd(c, k, v) ==
    LET e == [key |-> k, val |-> v]
        i == LruIndex(c, k)
        n == IF i = 0 THEN <<e>> \o c
                      ELSE <<e>> \o SubSeq(c, 1, i - 1) \o SubSeq(c, i + 1, Len(c))
    IN  IF Len(n) > Capacity THEN SubSeq(n, 1, Capacity) ELSE n

LruEvicts(c, k) == LruIndex(c, k) = 0 /\ Len(c) + 1 > Capacity

\* The value Cache.Add(k, v) evicts (0: none): the least recently used one.
LruVictim(c, k) == IF LruEvicts(c, k) THEN c[Len(c)].val ELSE 0

\* Mutant: Remove that leaves the entry in place.
LruRemoveNothing(c, k) == c

\* Cache.Remove
LruRemove(c, k) == SelectSeq(c, LAMBDA e : ~KeyEq(e.key, k))

\* The fetcher ids the table holds.
InTable(c) == {c[i].val : i \in 1..Len(c)}

\* -------------------------------------------------------------------- state
VARIABLES
    mu,         \* n.mu: 0 when free, else the caller holding it
    store,      \* n.store: the addresses whose chunk the local store holds
    fetchers,   \* n.fetchers: the lru cache, key -> fetcher id
    fetcher,    \* the fetcher objects, by id
    nextFid,    \* the id the next newFetcher gets (nextFid - 1 = calls of newFetchFunc)
    pc,         \* position of each caller
    op,         \* the call a caller is in: "Get", "Has", "Put", "Fetch"
    arg,        \* the address the call is about
    fet,        \* the fetcher get() handed to the caller (0: none)
    held,       \* the fetch function Has returned to the caller (0: nil)
    ctxDone,    \* the caller's context of this call has ended
    sel,        \* the case of the select the caller's Fetch took
    result,     \* the latest return: what was returned from which call
    ops,        \* calls issued so far, by all callers
    lookup,     \* outcome of n.store.Get / n.store.Put in this call
    evicted     \* the lru cache has evicted an entry at least once

vars == <<mu, store, fetchers, fetcher, nextFid, pc, op, arg, fet, held,
          ctxDone, sel, result, ops, lookup, evicted>>

\* newFetcher: a fresh fetcher for addr.  Besides the fields of the struct:
\* cancelled (the lifetime context is cancelled), destroys (how often the
\* destroy callback has run), gaveUp (some Fetch on it returned because
\* its context ended) and evicted (the lru cache has evicted it).
newFetcher(a) ==
    [addr |-> a, chunk |-> NilChunk, delivered |-> FALSE, requestCnt |-> 0,
     cancelled |-> FALSE, destroys |-> 0, peers |-> {}, gaveUp |-> FALSE,
     evicted |-> FALSE]

NoFetcher ==
    [addr |-> <<>>, chunk |-> NilChunk, delivered |-> FALSE, requestCnt |-> 0,
     cancelled |-> FALSE, destroys |-> 0, peers |-> {}, gaveUp |-> FALSE,
     evicted |-> FALSE]

\* A return: the call ("Get", "Has", "Put", "Fetch"), what the local store
\* answered in that call, the chunk and error returned, the fetch function Has returned (0: nil), whether Put returned a
\* wait function, the fetcher a Fetch ran on and whether its decrement
\* reached zero.
NoResult == [kind |-> "none", store |-> "none", chunk |-> NilChunk,
             err |-> "nil", fetch |-> 0, wait |-> FALSE, fid |-> 0,
             zero |-> FALSE]

Init ==
    /\ mu = 0
    /\ store = {}
    /\ fetchers = <<>>
    /\ fetcher = [f \in Fids |-> NoFetcher]
    /\ nextFid = 1
    /\ pc = [p \in Procs |-> "idle"]
    /\ op = [p \in Procs |-> "none"]
    /\ arg = [p \in Procs |-> <<>>]
    /\ fet = [p \in Procs |-> 0]
    /\ held = [p \in Procs |-> 0]
    /\ ctxDone = [p \in Procs |-> FALSE]
    /\ sel = [p \in Procs |-> "none"]
    /\ result = NoResult
    /\ ops = 0
    /\ lookup = [p \in Procs |-> "none"]
    /\ evicted = FALSE

\* ---------------------------------------------------- external collaborators
\* n.store.Get(ctx, ref): the chunk, ErrChunkNotFound, or another error.
StoreGetOutcomes(st, a) ==
    (IF a \in st THEN {"hit"} ELSE {"notfound"}) \cup {"fail"}

\* n.store.Put(ch): an error, a nil wait function when the chunk was already
\* there, or a wait function when it is newly written.
StorePutOutcomes(st, a) ==
    (IF a \in st THEN {"exists"} ELSE {"new"}) \cup {"error"}

\* The value rctx.Value("peer") of a caller's contexts (0: no value).
PeerOf(p) == IF p = 1 THEN 0 ELSE p

\* A lookup in the cache's map[interface{}]: an unhashable key panics; a
\* runtime that skips hashing on an empty map reports the key absent instead.
MapLookupOutcomes(c, k) ==
    IF Hashable(k) THEN {"ok"}
    ELSE IF Len(c) = 0 THEN {"ok", "panic"} ELSE {"panic"}

\* ------------------------------------------------------------------ n.mu
\* Mutant: a Lock that does not wait for the mutex.
TryLockAlways == TRUE

\* n.mu.Lock() goes through when the mutex is free.
TryLock == mu = 0
Lock(p) == TryLock /\ mu' = p
\* Mutant: the deferred Unlock is missing.
UnlockForgotten(p) == mu' = mu

\* defer n.mu.Unlock(): runs when Put or get returns.
Unlock(p) == mu' = 0

\* --------------------------------------------------------------- Get / Has
\* A call returns r: the caller is idle again.  Its locals (op, arg, fet,
\* ctxDone, sel, lookup) are dead from then on.
Return(p, r) ==
    /\ pc' = [pc EXCEPT ![p] = "idle"]
    /\ result' = r
    /\ sel' = [sel EXCEPT ![p] = "none"]
    /\ op' = [op EXCEPT ![p] = "none"]
    /\ arg' = [arg EXCEPT ![p] = <<>>]
    /\ fet' = [fet EXCEPT ![p] = 0]
    /\ ctxDone' = [ctxDone EXCEPT ![p] = FALSE]
    /\ lookup' = [lookup EXCEPT ![p] = "none"]

\* Mutant: the test of err inverted.
StoreHitInverted(out) == out # "hit"

\* get(): chunk, err := n.store.Get(ctx, ref); if err == nil return the chunk
\* and a nil fetch function.  Any error goes on to getOrCreateFetcher.
StoreHit(out) == out = "hit"

\* Get / Has enter get(): n.mu.Lock(), then the store lookup.  A hit returns
\* at once (the deferred n.mu.Unlock() runs); otherwise the caller goes on,
\* holding n.mu, to getOrCreateFetcher.
GetLookup(p, k, a) ==
    /\ pc[p] = "idle"
    /\ ops < MaxCalls
    /\ ops' = ops + 1
    /\ \E out \in StoreGetOutcomes(store, a) :
        IF StoreHit(out)
        THEN /\ TryLock
             /\ Unlock(p)
             /\ Return(p, [NoResult EXCEPT !.kind = k, !.store = out,
                                           !.chunk = IF k = "Get" THEN Chunk(a)
                                                     ELSE NilChunk])
             /\ held' = [held EXCEPT ![p] = IF k = "Has" THEN 0 ELSE @]
        ELSE /\ Lock(p)
             /\ pc' = [pc EXCEPT ![p] = "get_fetcher"]
             /\ op' = [op EXCEPT ![p] = k]
             /\ arg' = [arg EXCEPT ![p] = a]
             /\ lookup' = [lookup EXCEPT ![p] = out]
             /\ UNCHANGED <<held, fet, ctxDone, sel, result>>
    /\ UNCHANGED <<store, fetchers, fetcher, nextFid, evicted>>

\* getOrCreateFetcher, then get() returns f.Fetch and releases n.mu.
\* Get goes on to call fetch(rctx); Has hands the function to its caller.
GetOrCreateFetcher(p) ==
    /\ pc[p] = "get_fetcher"
    /\ LET key == HexKey(arg[p])
           f == LruGetVal(fetchers, key)
           got == IF f # 0 THEN f ELSE nextFid
       IN  /\ IF f # 0
              THEN /\ fetchers' = LruGetCache(fetchers, key)
                   /\ UNCHANGED <<fetcher, nextFid, evicted>>
              ELSE /\ nextFid <= MaxFetchers
                   /\ fetcher' = [g \in Fids |->
                                    IF g = nextFid THEN newFetcher(arg[p])
                                    ELSE IF g = LruVictim(fetchers, key)
                                    THEN [fetcher[g] EXCEPT !.evicted = TRUE]
                                    ELSE fetcher[g]]
                   /\ fetchers' = LruAdd(fetchers, key, nextFid)
                   /\ evicted' = (evicted \/ LruEvicts(fetchers, key))
                   /\ nextFid' = nextFid + 1
           /\ Unlock(p)
           /\ IF op[p] = "Get"
              THEN /\ pc' = [pc EXCEPT ![p] = "fetch_enter"]
                   /\ fet' = [fet EXCEPT ![p] = got]
                   /\ UNCHANGED <<result, held, op, arg, ctxDone, sel, lookup>>
              ELSE /\ Return(p, [NoResult EXCEPT !.kind = "Has",
                                                 !.store = lookup[p],
                                                 !.fetch = got])
                   /\ held' = [held EXCEPT ![p] = got]
    /\ UNCHANGED <<store, ops>>

\* The caller of Has calls the function it was handed, with a fresh context.
HeldFetch(p) ==
    /\ pc[p] = "idle"
    /\ ops < MaxCalls
    /\ held[p] # 0
    /\ pc' = [pc EXCEPT ![p] = "fetch_enter"]
    /\ op' = [op EXCEPT ![p] = "Fetch"]
    /\ arg' = [arg EXCEPT ![p] = fetcher[held[p]].addr]
    /\ fet' = [fet EXCEPT ![p] = held[p]]
    /\ ops' = ops + 1
    /\ UNCHANGED <<mu, store, fetchers, fetcher, nextFid, held, ctxDone, sel,
                   result, lookup, evicted>>

\* ------------------------------------------------------------ fetcher.Fetch
\* atomic.AddInt32(&f.requestCnt, 1); f.peers.Store(peer, true); f.fetch(rctx)
FetchEnter(p) ==
    /\ pc[p] = "fetch_enter"
    /\ fetcher' = [fetcher EXCEPT
                     ![fet[p]].requestCnt = @ + 1,
                     ![fet[p]].peers = IF PeerOf(p) # 0 THEN @ \cup {PeerOf(p)} ELSE @]
    /\ pc' = [pc EXCEPT ![p] = "fetch_wait"]
    /\ UNCHANGED <<mu, store, fetchers, nextFid, op, arg, fet, held, ctxDone,
                   sel, result, ops, lookup, evicted>>

\* The cases of the select that are ready.
SelectReady(p) ==
    (IF ctxDone[p] THEN {"ctx"} ELSE {}) \cup
    (IF fetcher[fet[p]].delivered THEN {"delivered"} ELSE {})

\* What Fetch returns from a case of the select: <-rctx.Done() gives
\* (nil, rctx.Err()), <-f.deliveredC gives (f.chunk, nil).
FetchResult(p, br) ==
    [NoResult EXCEPT !.kind = op[p],
                     !.store = lookup[p],
                     !.fid = fet[p],
                     !.chunk = IF br = "ctx" THEN NilChunk ELSE fetcher[fet[p]].chunk,
                     !.err = IF br = "ctx" THEN "ctx" ELSE "nil"]

\* Mutant: the deferred decrement is missing.
DecrementMissing(n) == n

\* atomic.AddInt32(&f.requestCnt, -1)
Decrement(n) == n - 1

\* The select returns, then the deferred calls run: f.peers.Delete(peer) and
\* if atomic.AddInt32(&f.requestCnt, -1) == 0 { f.cancel() }.  A caller whose
\* decrement reaches zero goes on to run destroy before Fetch returns.
FetchExit(p) ==
    /\ pc[p] = "fetch_wait"
    /\ \E br \in SelectReady(p) :
        /\ fetcher' = [fetcher EXCEPT
                         ![fet[p]].peers = @ \ {PeerOf(p)},
                         ![fet[p]].requestCnt = Decrement(@),
                         ![fet[p]].gaveUp = (@ \/ br = "ctx")]
        /\ IF fetcher'[fet[p]].requestCnt = 0
           THEN /\ pc' = [pc EXCEPT ![p] = "destroy"]
                /\ sel' = [sel EXCEPT ![p] = br]
                /\ UNCHANGED <<result, op, arg, fet, ctxDone, lookup>>
           ELSE Return(p, FetchResult(p, br))
    /\ UNCHANGED <<mu, store, fetchers, nextFid, held, ops, evicted>>

\* destroy: n.fetchers.Remove(key)
DestroyRemove(p) ==
    /\ pc[p] = "destroy"
    /\ fetchers' = LruRemove(fetchers, HexKey(fetcher[fet[p]].addr))
    /\ pc' = [pc EXCEPT ![p] = "destroy_cancel"]
    /\ UNCHANGED <<mu, store, fetcher, nextFid, op, arg, fet, held, ctxDone,
                   sel, result, ops, lookup, evicted>>

\* destroy: cancel().  Then Fetch returns.
DestroyCancel(p) ==
    /\ pc[p] = "destroy_cancel"
    /\ fetcher' = [fetcher EXCEPT ![fet[p]].cancelled = TRUE,
                                  ![fet[p]].destroys = @ + 1]
    /\ Return(p, [FetchResult(p, sel[p]) EXCEPT !.zero = TRUE])
    /\ UNCHANGED <<mu, store, fetchers, nextFid, held, ops, evicted>>

\* The context of a caller blocked in the select ends (cancel or deadline).
\* Nothing reads the context before the select, so an earlier end is the
\* same as one at this point.
Cancel(p) ==
    /\ pc[p] = "fetch_wait"
    /\ ~ctxDone[p]
    /\ ctxDone' = [ctxDone EXCEPT ![p] = TRUE]
    /\ UNCHANGED <<mu, store, fetchers, fetcher, nextFid, pc, op, arg, fet,
                   held, sel, result, ops, lookup, evicted>>

\* ---------------------------------------------------------------------- Put
\* Mutant: the store's error is not checked.
PutFailedIgnored(out) == FALSE

\* if err != nil { return nil, err }
PutFailed(out) == out = "error"

\* Mutant: the nil wait function is not checked.
WaitNilIgnored(out) == FALSE

\* if wait == nil { return nil, nil }: the chunk was already in the store.
WaitNil(out) == out # "new"

\* Put: n.mu.Lock(); wait, err := n.store.Put(ch).  An error or a nil wait
\* returns at once (the deferred n.mu.Unlock() runs); a new write goes on,
\* holding n.mu, to the fetchers table.
PutStore(p, a) ==
    /\ pc[p] = "idle"
    /\ ops < MaxCalls
    /\ ops' = ops + 1
    /\ \E out \in StorePutOutcomes(store, a) :
        /\ store' = IF out = "new" THEN store \cup {a} ELSE store
        /\ IF PutFailed(out)
           THEN /\ TryLock
                /\ Unlock(p)
                /\ Return(p, [NoResult EXCEPT !.kind = "Put", !.store = out,
                                              !.err = "store"])
           ELSE IF WaitNil(out)
           THEN /\ TryLock
                /\ Unlock(p)
                /\ Return(p, [NoResult EXCEPT !.kind = "Put", !.store = out])
           ELSE /\ Lock(p)
                /\ pc' = [pc EXCEPT ![p] = "put_deliver"]
                /\ op' = [op EXCEPT ![p] = "Put"]
                /\ arg' = [arg EXCEPT ![p] = a]
                /\ lookup' = [lookup EXCEPT ![p] = out]
                /\ UNCHANGED <<fet, ctxDone, sel, result>>
    /\ UNCHANGED <<fetchers, fetcher, nextFid, held, evicted>>

\* The key Put looks the fetchers table up with: ch.Address().
PutKey(a) == AddressKey(a)

\* fetcher.deliver: f.chunk = ch; close(f.deliveredC)
deliver(f, ch) == [fetcher EXCEPT ![f].chunk = ch, ![f].delivered = TRUE]

\* f, _ := n.fetchers.Get(ch.Address()); if f != nil { deliver }; return wait.
\* A panic (unhashable key, close of a closed channel) unwinds through the
\* deferred n.mu.Unlock().
PutDeliver(p) ==
    /\ pc[p] = "put_deliver"
    /\ LET key == PutKey(arg[p])
       IN  \E out \in MapLookupOutcomes(fetchers, key) :
             IF out = "panic"
             THEN /\ Return(p, [NoResult EXCEPT !.kind = "Put",
                                                !.store = lookup[p],
                                                !.err = "panic"])
                  /\ UNCHANGED <<fetchers, fetcher>>
             ELSE LET f == LruGetVal(fetchers, key)
                  IN  /\ fetchers' = LruGetCache(fetchers, key)
                      /\ IF f = 0
                         THEN /\ UNCHANGED fetcher
                              /\ Return(p, [NoResult EXCEPT !.kind = "Put",
                                                            !.store = lookup[p],
                                                            !.wait = TRUE])
                         ELSE IF fetcher[f].delivered
                         THEN /\ fetcher' = [fetcher EXCEPT ![f].chunk = Chunk(arg[p])]
                              /\ Return(p, [NoResult EXCEPT !.kind = "Put",
                                                            !.store = lookup[p],
                                                            !.err = "panic"])
                         ELSE /\ fetcher' = deliver(f, Chunk(arg[p]))
                              /\ Return(p, [NoResult EXCEPT !.kind = "Put",
                                                            !.store = lookup[p],
                                                            !.wait = TRUE,
                                                            !.fid = f])
    /\ Unlock(p)
    /\ UNCHANGED <<store, nextFid, held, ops, evicted>>

\* ------------------------------------------------------------ specification
Next ==
    \E p \in Procs :
        \/ \E a \in Addrs : GetLookup(p, "Get", a)
        \/ \E a \in Addrs : GetLookup(p, "Has", a)
        \/ GetOrCreateFetcher(p)
        \/ HeldFetch(p)
        \/ FetchEnter(p)
        \/ FetchExit(p)
        \/ DestroyRemove(p)
        \/ DestroyCancel(p)
        \/ Cancel(p)
        \/ \E a \in Addrs : PutStore(p, a)
        \/ PutDeliver(p)

Spec == Init /\ [][Next]_vars

\* ------------------------------------------------------------------ helpers
\* The fetchers created so far.
Created == 1..(nextFid - 1)

\* Callers blocked in the select of Fetch on fetcher f.
Waiters(f) == {p \in Procs : pc[p] = "fetch_wait" /\ fet[p] = f}

\* A Put that newly wrote address a has run to its end: the store holds a and
\* no Put of a is still inside its critical section.
PutCompleted(a) ==
    /\ a \in store
    /\ \A q \in Procs : ~(pc[q] = "put_deliver" /\ arg[q] = a)

\* ------------------------------------------------------------------- claims
\* C1: for an address missing from the store, once a Put that newly wrote it
\* has run, every Get of that address whose locked lookup came first and
\* whose context has not ended has been delivered to (so it returns the
\* chunk): Put finds the fetcher getOrCreateFetcher registered and delivers
\* to it before releasing the lock.
C1_PutWakesEveryGet ==
    \A p \in Procs :
        ( /\ op[p] = "Get"
          /\ pc[p] \in {"fetch_enter", "fetch_wait"}
          /\ lookup[p] = "notfound"
          /\ ~ctxDone[p]
          /\ PutCompleted(arg[p]) )
        => fetcher[fet[p]].delivered

\* C2: while the lru cache has evicted nothing, no two distinct fetchers of
\* one address both have requestCnt > 0.
C2_OneOutstandingFetcher ==
    ~evicted =>
        \A f, g \in Created :
            ( /\ f # g
              /\ fetcher[f].addr = fetcher[g].addr
              /\ fetcher[f].requestCnt > 0 )
            => fetcher[g].requestCnt = 0

\* C3: a waiter whose context ends before delivery returns that context's
\* error; and when a later Put of the chunk finishes, every other Get of the
\* address that has done its locked lookup-or-register step (also one still
\* between get() and Fetch) and whose context has not ended has been
\* delivered to.
C3_OtherWaitersStillServed ==
    [][ /\ \A p \in Procs :
            ( /\ pc[p] = "fetch_wait"
              /\ pc'[p] # "fetch_wait"
              /\ ctxDone[p]
              /\ ~fetcher[fet[p]].delivered )
            => IF pc'[p] = "destroy" THEN sel'[p] = "ctx" ELSE result'.err = "ctx"
        /\ \A q \in Procs, p \in Procs :
            ( /\ pc[q] = "put_deliver"
              /\ pc'[q] = "idle"
              /\ op[p] = "Get"
              /\ pc[p] \in {"fetch_enter", "fetch_wait"}
              /\ arg[p] = arg[q]
              /\ fetcher[fet[p]].gaveUp
              /\ ~ctxDone[p] )
            => fetcher'[fet[p]].delivered ]_vars

\* What the local store answered in the step that begins p's call.
StoreAnswer(p) == IF pc'[p] = "idle" THEN result'.store ELSE lookup'[p]

\* C4: a Get or Has of an address the store holds, whose lookup returns the
\* chunk, returns in that step (Get: the chunk and a nil error; Has: a nil
\* function), creates no fetcher, calls newFetchFunc not at all and leaves
\* the fetchers table as it was.
C4_StoreHitNoFetcher ==
    [][ \A p \in Procs, k \in {"Get", "Has"}, a \in Addrs :
            ( /\ a \in store
              /\ GetLookup(p, k, a)
              /\ StoreAnswer(p) = "hit" )
            => /\ pc'[p] = "idle"
               /\ mu' = 0
               /\ result'.kind = k
               /\ result'.err = "nil"
               /\ k = "Get" => result'.chunk = Chunk(a)
               /\ k = "Has" => (result'.fetch = 0 /\ held'[p] = 0)
               /\ UNCHANGED <<fetchers, fetcher, nextFid>> ]_vars

\* A Get of a stored address has returned its chunk straight from the store
\* while the fetchers table holds a fetcher.
C4_Witness ==
    /\ result.kind = "Get"
    /\ result.store = "hit"
    /\ result.err = "nil"
    /\ result.chunk.addr \in store
    /\ fetchers # <<>>

\* The fetcher get() hands to caller q in the step that ends q's critical
\* section.
Got(q) == IF op[q] = "Get" THEN fet'[q] ELSE held'[q]

\* C5 as claimed: when a Fetch whose decrement reached zero returns, the
\* fetchers table holds no entry for the address and the lifetime context is
\* cancelled; a get of that address that misses the store after a teardown
\* creates a new fetcher.
C5_NoEntryForAddressOnReturn ==
    [][ /\ \A p \in Procs :
            (pc[p] = "destroy_cancel" /\ pc'[p] = "idle")
            => /\ LruIndex(fetchers', HexKey(arg[p])) = 0
               /\ fetcher'[fet[p]].cancelled
        /\ \A q \in Procs :
            ( /\ pc[q] = "get_fetcher"
              /\ pc'[q] # "get_fetcher"
              /\ \E f \in Created : /\ fetcher[f].addr = arg[q]
                                    /\ fetcher[f].destroys > 0 )
            => nextFid' = nextFid + 1 ]_vars

\* C5 (amended): once a Fetch whose decrement reached zero has returned, the
\* fetchers table holds no entry for that fetcher and its lifetime context
\* is cancelled; no later get is handed that fetcher again (it finds or
\* creates a different one).
C5_TornDownFetcherGone ==
    [][ /\ \A f \in Fids :
            fetcher'[f].destroys > 0
            => (f \notin InTable(fetchers') /\ fetcher'[f].cancelled)
        /\ \A q \in Procs :
            (pc[q] = "get_fetcher" /\ pc'[q] # "get_fetcher")
            => fetcher'[Got(q)].destroys = 0 ]_vars

\* A Fetch whose decrement reached zero has returned, and a Get of the same
\* address is running on a later fetcher.
C5_Witness ==
    \E f \in Created, q \in Procs :
        /\ result.zero
        /\ result.fid = f
        /\ fetcher[f].destroys > 0
        /\ pc[q] \in {"fetch_enter", "fetch_wait"}
        /\ arg[q] = fetcher[f].addr
        /\ fet[q] > f

\* Positions between the first and the last step of Put's and get's pairs.
Critical == {"get_fetcher", "put_deliver"}

\* C6: no two callers are at once between the first and the last step of
\* Put's pair (store write, table lookup and deliver) or get's pair (store
\* lookup, find-or-create); the caller that is holds n.mu.
C6_CriticalSectionsExclusive ==
    \A p \in Procs :
        pc[p] \in Critical
        => /\ mu = p
           /\ \A q \in Procs : pc[q] \in Critical => q = p

\* A Put is between its store write and its table lookup while a Get of the
\* same address has registered its fetcher.
C6_Witness ==
    \E p \in Procs, q \in Procs :
        /\ pc[p] = "put_deliver"
        /\ pc[q] \in {"fetch_enter", "fetch_wait"}
        /\ arg[q] = arg[p]
        /\ fet[q] \in InTable(fetchers)

\* C7: a Put whose chunk the store reports as already present returns
\* (nil, nil) in that step, and does no session work: the fetchers table and
\* every fetcher (delivered state, chunk, requestCnt) stay as they were.
C7_AlreadyPresentNoSessionWork ==
    [][ \A p \in Procs, a \in Addrs :
            (PutStore(p, a) /\ StoreAnswer(p) = "exists")
            => /\ pc'[p] = "idle"
               /\ mu' = 0
               /\ result'.kind = "Put"
               /\ result'.err = "nil"
               /\ ~result'.wait
               /\ UNCHANGED <<fetchers, fetcher>> ]_vars

\* A Put of an already stored chunk has returned (nil, nil) while a caller
\* waits, undelivered, on a fetcher of a stored address.
C7_Witness ==
    /\ result.kind = "Put"
    /\ result.store = "exists"
    /\ ~result.wait
    /\ \E p \in Procs : /\ pc[p] = "fetch_wait"
                        /\ arg[p] \in store
                        /\ ~fetcher[fet[p]].delivered

\* C8: a Put whose store write fails returns that error and a nil wait
\* function in that step; the fetchers table and every fetcher stay as they
\* were, the store is unchanged and n.mu is released.
C8_WriteErrorNoSessionChange ==
    [][ \A p \in Procs, a \in Addrs :
            (PutStore(p, a) /\ StoreAnswer(p) = "error")
            => /\ pc'[p] = "idle"
               /\ mu' = 0
               /\ result'.kind = "Put"
               /\ result'.err = "store"
               /\ ~result'.wait
               /\ UNCHANGED <<fetchers, fetcher, store>> ]_vars

\* A Put has returned the store's write error while the fetchers table holds
\* a fetcher with a waiter.
C8_Witness ==
    /\ result.kind = "Put"
    /\ result.store = "error"
    /\ result.err = "store"
    /\ mu = 0
    /\ \E p \in Procs : pc[p] = "fetch_wait" /\ fet[p] \in InTable(fetchers)

\* C9: a Get whose store lookup failed (an error other than not found) gets
\* that error back: it is never blocked in Fetch on a fetcher registered for
\* the address.
C9_LookupFailureSurfaced ==
    \A p \in Procs :
        (op[p] = "Get" /\ lookup[p] = "fail")
        => ~(pc[p] = "fetch_wait" /\ fet[p] \in InTable(fetchers))

\* C10: a caller suspended in the select of Fetch does not hold n.mu: the
\* mutex is free, or held by another caller that is inside a Put or get
\* critical section.
C10_NoLockWhileWaiting ==
    \A p \in Procs :
        pc[p] = "fetch_wait"
        => /\ mu # p
           /\ mu # 0 => pc[mu] \in Critical

\* A caller is suspended in Fetch while another one holds n.mu for a call on
\* another address.
C10_Witness ==
    \E p \in Procs, q \in Procs :
        /\ pc[p] = "fetch_wait"
        /\ q # p
        /\ mu = q
        /\ arg[q] # arg[p]

\* Callers that hold fetcher f inside a call: from get() handing it out to
\* the return of Fetch.
Holders(f) == {p \in Procs : pc[p] # "idle" /\ fet[p] = f}

\* C11: the destroy callback of a fetcher runs exactly once over the
\* fetcher's life: never a second time, and it has run once every caller of
\* a fetcher that was fetched on has left.
C11_DestroyExactlyOnce ==
    \A f \in Created :
        /\ fetcher[f].destroys <= 1
        /\ (fetcher[f].gaveUp /\ Holders(f) = {}) => fetcher[f].destroys >= 1

\* C12: once destroy has run for a fetcher, its requestCnt is never positive
\* again and no caller is blocked in Fetch on it.
C12_NeverReusedAfterTeardown ==
    \A f \in Created :
        fetcher[f].destroys > 0
        => /\ fetcher[f].requestCnt = 0
           /\ Waiters(f) = {}

\* C13: when a Put that newly wrote an address finishes, every caller blocked
\* in Fetch on a fetcher of that address that the lru cache has evicted, and
\* whose context has not ended, has been delivered to (the store reports the
\* chunk as new only once, so no later Put can serve it).
C13_EvictedWaitersServed ==
    [][ \A q \in Procs, p \in Procs :
            ( /\ pc[q] = "put_deliver"
              /\ pc'[q] = "idle"
              /\ pc[p] = "fetch_wait"
              /\ arg[p] = arg[q]
              /\ lookup[p] = "notfound"
              /\ fetcher[fet[p]].evicted
              /\ fetcher[fet[p]].destroys = 0
              /\ ~ctxDone[p] )
            => fetcher'[fet[p]].delivered ]_vars

\* fetcher.deliver is never reached: the key Put looks up never equals a key
\* getOrCreateFetcher registered, so no fetcher is ever delivered to and no
\* Fetch returns through <-f.deliveredC.
DeliverNeverRuns ==
    /\ \A f \in Fids : ~fetcher[f].delivered
    /\ result.kind \in {"Get", "Fetch"} /\ result.fid # 0 => result.err = "ctx"

\* The step of caller p reads or writes the fetchers table: the find-or-create
\* of getOrCreateFetcher, the lookup of Put, the Remove of destroy.
TableAccess(p) ==
    \/ pc[p] = "get_fetcher" /\ pc'[p] # "get_fetcher"
    \/ pc[p] = "put_deliver" /\ pc'[p] # "put_deliver"
    \/ pc[p] = "destroy" /\ pc'[p] # "destroy"

\* C14: every read and every write of the fetchers table is done by a caller
\* that holds n.mu at that moment, the Remove of destroy included.
C14_TableAccessUnderMutex ==
    [][ \A p \in Procs : TableAccess(p) => mu = p ]_vars

\* C18: the Remove of a fetcher's destroy takes no other fetcher out of the
\* fetchers table.
C18_TeardownRemovesOnlyItself ==
    [][ \A p \in Procs :
            (pc[p] = "destroy" /\ pc'[p] = "destroy_cancel")
            => (InTable(fetchers) \ InTable(fetchers')) \subseteq {fet[p]} ]_vars

\* No Get, Has, Put or Fetch call is in progress.
Quiescent == \A p \in Procs : pc[p] = "idle"

\* C19: in every quiescent state the fetchers table is empty and the lifetime
\* context of every fetcher created so far is cancelled.
C19_NoFetcherOutlivesCallers ==
    Quiescent
    => /\ fetchers = <<>>
       /\ \A f \in Created : fetcher[f].cancelled

\* C20: the requestCnt of every fetcher is the number of callers between the
\* increment and the deferred decrement of Fetch on it, and is not negative.
C20_RequestCntCountsCallers ==
    \A f \in Fids :
        /\ fetcher[f].requestCnt = Cardinality(Waiters(f))
        /\ fetcher[f].requestCnt >= 0

\* Two callers are inside Fetch on a fetcher that an earlier Fetch call has
\* left (by its context ending) without bringing the count to zero.
C20_Witness ==
    \E f \in Created :
        /\ fetcher[f].requestCnt = 2
        /\ result.fid = f
        /\ result.err = "ctx"
        /\ ~result.zero
====
